---- MODULE Spec2Model ----
(***************************************************************************)
(* CSP-Scout-UI: the client-side resilience primitives of the dashboard.   *)
(*   - checkRateLimit (config.ts): the process-wide sliding-window limiter *)
(*   - fetchWithRetry / fetchWithCache (CSPReportsTable.svelte and the     *)
(*     statistics component): rate-limit gate, timeout, retry, validation  *)
(*     and the per-component response cache                                *)
(*   - onMount / showReportDetails: the callers that consume the result    *)
(* Time is a discrete clock `now` (Date.now()); one JavaScript turn (the   *)
(* code between two suspension points) is one action.                      *)
(***************************************************************************)
EXTENDS Integers, Sequences, FiniteSets, Bags, TLC

VARIABLES
    now,               \* Date.now()
    requestCounts,     \* config.ts: Map<clientId, number[]>
    cache,             \* per component instance: Map<url, {data, timestamp}>
    tasks,             \* the fetchWithCache calls in flight (a bag of call records)
    mounted,           \* has the component's onMount callback run
    loading,           \* component state
    error,
    reports,
    rateLimitExceeded,
    selectedReport,    \* report table only
    modalOpen,
    searchQuery,       \* report table: the text of the search box
    filteredReports,   \* report table: the rows displayed
    sortField,
    sortDirection,
    statistics,        \* statistics component: the top tables
    maxRequests,       \* API_CONFIG.SECURITY.RATE_LIMIT.MAX_REQUESTS as configured
    served,            \* the report collection the backend holds
    sanitizer,         \* a sanitizer applied to a string: argument and results
    uiEvent,           \* history: the user event the report table handled last
    selectedId,        \* history: the id given to the last showReportDetails call
    allowedLog,        \* history: every time checkRateLimit returned true, per client
    lastCheck,         \* history: the most recent checkRateLimit call
    lastDone,          \* history: the fetchWithCache call that completed last
    callCount,         \* history: fetchWithCache calls made, per component and URL
    netCount           \* history: fetch() calls issued, per component and URL

vars == <<now, requestCounts, cache, tasks, mounted, loading, error, reports,
          rateLimitExceeded, selectedReport, modalOpen, searchQuery, filteredReports,
          sortField, sortDirection, statistics, maxRequests, served, sanitizer,
          uiEvent, selectedId, allowedLog, lastCheck, lastDone, callCount, netCount>>

viewVars == <<loading, error, reports, selectedReport, modalOpen, filteredReports,
              statistics>>

\* what no step of a fetch touches: the configuration, the backend's data,
\* the search box and the sort settings, the sanitizer under study
idleVars == <<maxRequests, served, searchQuery, sortField, sortDirection, sanitizer,
              uiEvent, selectedId>>

----------------------------------------------------------------------------
(* Bounds of the model *)

MaxTime == 3
MaxTasks == 3
MaxLen == 3        \* length of the strings given to a sanitizer
MaxHead == 5       \* length of the freely chosen part of a statistics input

(* API_CONFIG as built from the environment (VITE_API_* variables), in     *)
(* clock ticks.                                                            *)
TIMEOUT_MS == 2
MAX_RETRIES == 1
RETRY_DELAY_MS == 1
DURATION_MS == 2
MAX_REQUESTS == 2
WINDOW_MS == 2
CACHE_ENABLED == TRUE

----------------------------------------------------------------------------
(* Components, client ids, URLs, payloads, responses, errors *)

Views == {"table", "stats"}

\* clientId: one generated token per component instance
ClientId(v) == IF v = "table" THEN "client_table" ELSE "client_stats"

ClientIds == {ClientId(v) : v \in Views}

\* Strings are sequences of one-character strings.

\* (mutant) the regular expression lacks the g flag: only the first match
\* is removed
SanitizeInputFirstOnly(s) ==
    LET hits == {i \in DOMAIN s : s[i] \in {"<", ">", "'", "\""}} IN
    IF hits = {} THEN s
    ELSE LET k == CHOOSE i \in hits : \A j \in hits : i <= j
         IN SubSeq(s, 1, k - 1) \o SubSeq(s, k + 1, Len(s))

\* sanitizeInput: input.replace(/[<>'"]/g, '')
SanitizeInput(s) == SelectSeq(s, LAMBDA ch : ch \notin {"<", ">", "'", "\""})

\* s.replace(/ch/g, entity)
RECURSIVE ReplaceAll(_, _, _)
ReplaceAll(s, ch, entity) ==
    IF s = << >> THEN << >>
    ELSE (IF Head(s) = ch THEN entity ELSE <<Head(s)>>) \o ReplaceAll(Tail(s), ch, entity)

LtEntity == <<"&", "l", "t", ";">>

GtEntity == <<"&", "g", "t", ";">>

QuotEntity == <<"&", "q", "u", "o", "t", ";">>

AposEntity == <<"&", "#", "0", "3", "9", ";">>

AmpEntity == <<"&", "a", "m", "p", ";">>

\* (mutant) the ampersand is escaped too, after the other four
SanitizeHtmlAmpLast(html) ==
    ReplaceAll(ReplaceAll(ReplaceAll(ReplaceAll(ReplaceAll(html,
        "<", LtEntity), ">", GtEntity), "\"", QuotEntity), "'", AposEntity),
        "&", AmpEntity)

\* (mutant) the pass for the single quote is missing
SanitizeHtmlNoApos(html) ==
    ReplaceAll(ReplaceAll(ReplaceAll(html,
        "<", LtEntity), ">", GtEntity), "\"", QuotEntity)

\* sanitizeHtml: four replace passes, in this order
SanitizeHtml(html) ==
    ReplaceAll(ReplaceAll(ReplaceAll(ReplaceAll(html,
        "<", LtEntity), ">", GtEntity), "\"", QuotEntity), "'", AposEntity)

\* String.prototype.toLowerCase on the letters the model uses
ToLowerCase(s) ==
    [i \in DOMAIN s |-> IF s[i] = "E" THEN "e" ELSE IF s[i] = "M" THEN "m" ELSE s[i]]

\* String.prototype.includes
Includes(s, q) ==
    \E i \in 0..(Len(s) - Len(q)) : SubSeq(s, i + 1, i + Len(q)) = q

\* String.prototype.trim
RECURSIVE TrimStart(_)
TrimStart(s) ==
    IF s # << >> /\ Head(s) = " " THEN TrimStart(Tail(s)) ELSE s

RECURSIVE TrimEnd(_)
TrimEnd(s) ==
    IF s # << >> /\ s[Len(s)] = " " THEN TrimEnd(SubSeq(s, 1, Len(s) - 1)) ELSE s

Trim(s) == TrimEnd(TrimStart(s))

\* the characters of the model in the order of their UTF-16 code units
CharOrder ==
    <<" ", "\"", "#", "&", "'", "0", "1", "2", "3", "7", "9", ";", "<", ">",
      "E", "F", "L", "M", "U", "a", "b", "e", "g", "i", "k", "l", "m", "n",
      "o", "p", "q", "r", "s", "t", "u", "v", "w", "x", "z">>

CharCode(ch) == CHOOSE i \in DOMAIN CharOrder : CharOrder[i] = ch

\* a > b on strings: the comparison by code units
RECURSIVE StringGreater(_, _)
StringGreater(a, b) ==
    IF a = << >> THEN FALSE
    ELSE IF b = << >> THEN TRUE
    ELSE IF Head(a) = Head(b) THEN StringGreater(Tail(a), Tail(b))
    ELSE CharCode(Head(a)) > CharCode(Head(b))

\* interface Report { _id; report: ReportData }, with the fields the two
\* components read
ReportA ==
    [_id |-> <<"<", "a">>, violateddirective |-> <<"s">>, blockeduri |-> <<"E", "v">>,
     clientip |-> <<"1">>, useragent |-> <<"m">>, referrer |-> << >>, reporttime |-> 2]

ReportB ==
    [_id |-> <<"a">>, violateddirective |-> <<"s">>, blockeduri |-> <<"x">>,
     clientip |-> <<"'", "1">>, useragent |-> <<"M">>, referrer |-> <<"r">>,
     reporttime |-> 1]

ReportC ==
    [_id |-> <<"b">>, violateddirective |-> <<"i">>, blockeduri |-> <<"v">>,
     clientip |-> <<"2">>, useragent |-> <<"m">>, referrer |-> <<"<">>, reporttime |-> 2]

Reports == {ReportA, ReportB, ReportC}

ReportIds == {r._id : r \in Reports}

ListUrl == <<"/api/v1/reports">>

DetailUrl(id) == <<"/api/v1/reports", "/">> \o SanitizeInput(id)

Urls == {ListUrl} \cup {DetailUrl(id) : id \in ReportIds}

\* A parsed JSON body.  Every response may differ from every other one, so a
\* body is named by the request it answers: the req-th fetch() a component
\* issued for url.
NoData == [url |-> << >>, req |-> 0]

Payload(url, req) == [url |-> url, req |-> req]

NoEntry == [data |-> NoData, timestamp |-> -1, tries |-> 0]

\* response.headers.get('Content-Type'); "null" when the header is absent
ContentTypes == {"application/json; charset=utf-8", "text/html", "null"}

\* contentType?.includes('application/json')
IncludesJson(ct) == ct \in {"application/json", "application/json; charset=utf-8"}

NoResponse == [ct |-> "none", status |-> 0]

Statuses == {200, 500}

\* response.ok
Ok(status) == status >= 200 /\ status <= 299

NoError == [kind |-> "none", status |-> 0]

RateLimitError == [kind |-> "Rate limit exceeded. Please try again later.", status |-> 0]

ContentTypeError == [kind |-> "Invalid response content type", status |-> 0]

HttpError(status) == [kind |-> "HTTP error! status", status |-> status]

NetworkError == [kind |-> "network", status |-> 0]

AbortError == [kind |-> "abort", status |-> 0]

ParseError == [kind |-> "json", status |-> 0]

----------------------------------------------------------------------------
(* checkRateLimit *)

\* timestamps.filter(timestamp => now - timestamp < windowMs)
InWindow(ts, t) == t - ts < WINDOW_MS

\* (mutant) the filter is left out
PrunedNever(c) == requestCounts[c]

Pruned(c) == SelectSeq(requestCounts[c], LAMBDA ts : InWindow(ts, now))

\* (mutant) the limit is tested with > instead of >=
AllowedOffByOne(c) == ~(Len(Pruned(c)) > maxRequests)

\* the value checkRateLimit(c) returns at the current time
Allowed(c) == ~(Len(Pruned(c)) >= maxRequests)

\* (mutant) the rejected attempt is recorded too
RequestCountsAfterCounting(c) ==
    [requestCounts EXCEPT ![c] = Append(Pruned(c), now)]

\* the map after checkRateLimit(c)
RequestCountsAfter(c) ==
    IF Allowed(c)
    THEN [requestCounts EXCEPT ![c] = Append(Pruned(c), now)]
    ELSE requestCounts

CheckRateLimit(c) ==
    /\ requestCounts' = RequestCountsAfter(c)
    /\ allowedLog' = IF Allowed(c)
                     THEN [allowedLog EXCEPT ![c] = Append(@, now)]
                     ELSE allowedLog
    /\ lastCheck' = [client |-> c, result |-> Allowed(c), n |-> lastCheck.n + 1]

----------------------------------------------------------------------------
(* The report table: search filter *)

\* the parsed body of a response to the collection request
Rows(d) == IF d = NoData THEN << >> ELSE served

\* (mutant) a report must match in every field
MatchesEveryField(report, sanitizedQuery) ==
    /\ Includes(ToLowerCase(report.violateddirective), sanitizedQuery)
    /\ Includes(ToLowerCase(report.blockeduri), sanitizedQuery)
    /\ Includes(ToLowerCase(report.clientip), sanitizedQuery)
    /\ Includes(ToLowerCase(report.useragent), sanitizedQuery)

\* the predicate of reports.filter in the reactive block
Matches(report, sanitizedQuery) ==
    \/ Includes(ToLowerCase(report.violateddirective), sanitizedQuery)
    \/ Includes(ToLowerCase(report.blockeduri), sanitizedQuery)
    \/ Includes(ToLowerCase(report.clientip), sanitizedQuery)
    \/ Includes(ToLowerCase(report.useragent), sanitizedQuery)

\* the reactive block: runs when reports or searchQuery has been assigned
FilterReports(rs, query) ==
    LET sanitizedQuery == SanitizeInput(ToLowerCase(query))
    IN SelectSeq(rs, LAMBDA report : Matches(report, sanitizedQuery))

----------------------------------------------------------------------------
(* The statistics component: calculateStatistics *)

TOP_ENTRIES == 10

NoStatistics ==
    [topUserAgents |-> << >>, topIPs |-> << >>, topViolatedDirectives |-> << >>,
     topReferrers |-> << >>, topBlockedURIs |-> << >>, topOS |-> << >>,
     topBrowsers |-> << >>]

\* counts.set(k, (counts.get(k) || 0) + 1) on a Map, which keeps its keys in
\* the order of their first insertion
Bump(counts, k) ==
    IF \E i \in DOMAIN counts : counts[i].key = k
    THEN [i \in DOMAIN counts |->
            IF counts[i].key = k
            THEN [key |-> k, count |-> counts[i].count + 1]
            ELSE counts[i]]
    ELSE Append(counts, [key |-> k, count |-> 1])

\* the Map after the forEach loop has counted the keys in order
RECURSIVE CountKeys(_)
CountKeys(keys) ==
    IF keys = << >> THEN << >>
    ELSE Bump(CountKeys(SubSeq(keys, 1, Len(keys) - 1)), keys[Len(keys)])

\* entries.sort((a, b) => b.count - a.count): a stable sort
RECURSIVE SortByCount(_)
SortByCount(entries) ==
    IF entries = << >> THEN << >>
    ELSE LET front == SortByCount(SubSeq(entries, 1, Len(entries) - 1))
             e == entries[Len(entries)]
             k == Cardinality({i \in DOMAIN front : front[i].count >= e.count})
         IN SubSeq(front, 1, k) \o <<e>> \o SubSeq(front, k + 1, Len(front))

\* (mutant) the entries are not sorted before the slice
TopOfUnsorted(keys) ==
    LET entries == CountKeys(keys)
    IN SubSeq(entries, 1, IF Len(entries) < TOP_ENTRIES THEN Len(entries) ELSE TOP_ENTRIES)

\* Array.from(counts.entries()).map(...).sort(...).slice(0, 10)
TopOf(keys) ==
    LET entries == SortByCount(CountKeys(keys))
    IN SubSeq(entries, 1, IF Len(entries) < TOP_ENTRIES THEN Len(entries) ELSE TOP_ENTRIES)

Unknown == <<"U", "n", "k", "n", "o", "w", "n">>

\* parser.setUA(ua); parser.getResult(): the user-agent parser, an external
\* collaborator; an absent component is the empty string
ParseUA(ua) ==
    IF ua = <<"m">>
    THEN [os |-> [name |-> <<"L">>, version |-> << >>],
          browser |-> [name |-> <<"F">>, version |-> <<"9">>]]
    ELSE IF ua = <<"M">>
    THEN [os |-> [name |-> << >>, version |-> <<"7">>],
          browser |-> [name |-> << >>, version |-> << >>]]
    ELSE [os |-> [name |-> <<"L">>, version |-> <<"7">>],
          browser |-> [name |-> <<"F">>, version |-> << >>]]

\* (mutant) the key is not trimmed
ComponentKeyUntrimmed(c) ==
    SanitizeInput((IF c.name = << >> THEN Unknown ELSE c.name) \o <<" ">> \o c.version)

\* sanitizeInput(`${c.name || 'Unknown'} ${c.version || ''}`.trim())
ComponentKey(c) ==
    SanitizeInput(Trim((IF c.name = << >> THEN Unknown ELSE c.name) \o <<" ">> \o c.version))

\* the keys the forEach loop counts for each table, in report order
UserAgentKeys(rs) == [i \in DOMAIN rs |-> SanitizeInput(rs[i].useragent)]

IpKeys(rs) == [i \in DOMAIN rs |-> SanitizeInput(rs[i].clientip)]

DirectiveKeys(rs) == [i \in DOMAIN rs |-> SanitizeInput(rs[i].violateddirective)]

UriKeys(rs) == [i \in DOMAIN rs |-> SanitizeInput(rs[i].blockeduri)]

\* (mutant) empty referrers are counted like the others
ReferrerKeysAll(rs) == [i \in DOMAIN rs |-> SanitizeInput(rs[i].referrer)]

\* referrer ? sanitizeInput(referrer) : '', counted only if (referrer)
ReferrerKeys(rs) ==
    SelectSeq([i \in DOMAIN rs |-> SanitizeInput(rs[i].referrer)],
              LAMBDA referrer : referrer # << >>)

OsKeys(rs) == [i \in DOMAIN rs |-> ComponentKey(ParseUA(SanitizeInput(rs[i].useragent)).os)]

BrowserKeys(rs) ==
    [i \in DOMAIN rs |-> ComponentKey(ParseUA(SanitizeInput(rs[i].useragent)).browser)]

CalculateStatistics(rs) ==
    [topUserAgents |-> TopOf(UserAgentKeys(rs)),
     topIPs |-> TopOf(IpKeys(rs)),
     topViolatedDirectives |-> TopOf(DirectiveKeys(rs)),
     topReferrers |-> TopOf(ReferrerKeys(rs)),
     topBlockedURIs |-> TopOf(UriKeys(rs)),
     topOS |-> TopOf(OsKeys(rs)),
     topBrowsers |-> TopOf(BrowserKeys(rs))]

----------------------------------------------------------------------------
(* The callers' continuations: onMount and showReportDetails *)

\* the record of a fetchWithCache call that has just been made
\*   pc, retryCount, since, resp        the call's position and locals
\*   began                              const now = Date.now() of the lookup
\*   age .. lastFail                    history of the call
NewTask(v, kind, id, url) ==
    [view |-> v, kind |-> kind, id |-> id, url |-> url,
     pc |-> "start", retryCount |-> 0, since |-> 0, req |-> 0, resp |-> NoData,
     began |-> now, age |-> -1, seen |-> NoData, netCalls |-> 0, checks |-> 0, delays |-> 0,
     waited |-> TRUE, lastResp |-> NoResponse, lastFail |-> NoError]

\* (mutant) the catch block of onMount does not reset loading
DeliverKeepsLoading(v, kind, oc, d, e) ==
    IF kind = "list"
    THEN IF oc = "ok"
         THEN /\ loading' = [loading EXCEPT ![v] = FALSE]
              /\ reports' = [reports EXCEPT ![v] = d]
              /\ IF v = "table"
                 THEN /\ filteredReports' = FilterReports(Rows(d), searchQuery)
                      /\ UNCHANGED statistics
                 ELSE /\ statistics' = CalculateStatistics(Rows(d))
                      /\ UNCHANGED filteredReports
              /\ UNCHANGED <<error, selectedReport, modalOpen>>
         ELSE /\ error' = [error EXCEPT ![v] = e]
              /\ UNCHANGED <<loading, reports, filteredReports, statistics,
                             selectedReport, modalOpen>>
    ELSE /\ IF oc = "ok"
            THEN selectedReport' = d /\ modalOpen' = TRUE /\ UNCHANGED error
            ELSE error' = [error EXCEPT ![v] = e] /\ UNCHANGED <<selectedReport, modalOpen>>
         /\ UNCHANGED <<loading, reports, filteredReports, statistics>>

\* (mutant) the catch block of showReportDetails only logs
DeliverLogsOnly(v, kind, oc, d, e) ==
    IF kind = "list"
    THEN /\ loading' = [loading EXCEPT ![v] = FALSE]
         /\ IF oc = "ok"
            THEN /\ reports' = [reports EXCEPT ![v] = d]
                 /\ IF v = "table"
                    THEN /\ filteredReports' = FilterReports(Rows(d), searchQuery)
                         /\ UNCHANGED statistics
                    ELSE /\ statistics' = CalculateStatistics(Rows(d))
                         /\ UNCHANGED filteredReports
                 /\ UNCHANGED error
            ELSE /\ error' = [error EXCEPT ![v] = e]
                 /\ UNCHANGED <<reports, filteredReports, statistics>>
         /\ UNCHANGED <<selectedReport, modalOpen>>
    ELSE /\ IF oc = "ok"
            THEN selectedReport' = d /\ modalOpen' = TRUE /\ UNCHANGED error
            ELSE UNCHANGED <<error, selectedReport, modalOpen>>
         /\ UNCHANGED <<loading, reports, filteredReports, statistics>>

\* what the awaiting caller does with the result of fetchWithCache
Deliver(v, kind, oc, d, e) ==
    IF kind = "list"
    THEN /\ loading' = [loading EXCEPT ![v] = FALSE]
         /\ IF oc = "ok"
            THEN /\ reports' = [reports EXCEPT ![v] = d]
                 /\ IF v = "table"
                    THEN /\ filteredReports' = FilterReports(Rows(d), searchQuery)
                         /\ UNCHANGED statistics
                    ELSE /\ statistics' = CalculateStatistics(Rows(d))
                         /\ UNCHANGED filteredReports
                 /\ UNCHANGED error
            ELSE /\ error' = [error EXCEPT ![v] = e]
                 /\ UNCHANGED <<reports, filteredReports, statistics>>
         /\ UNCHANGED <<selectedReport, modalOpen>>
    ELSE /\ IF oc = "ok"
            THEN selectedReport' = d /\ modalOpen' = TRUE /\ UNCHANGED error
            ELSE error' = [error EXCEPT ![v] = e] /\ UNCHANGED <<selectedReport, modalOpen>>
         /\ UNCHANGED <<loading, reports, filteredReports, statistics>>

\* the call t settles: via is "cache" or "network", oc is "ok" or "error"
Finish(t, via, oc, d, e) ==
    /\ lastDone' = [view |-> t.view, kind |-> t.kind, url |-> t.url, via |-> via,
                    outcome |-> oc, data |-> d, err |-> e,
                    retryCount |-> t.retryCount, age |-> t.age, seen |-> t.seen,
                    netCalls |-> t.netCalls, checks |-> t.checks,
                    delays |-> t.delays, waited |-> t.waited,
                    lastResp |-> t.lastResp, lastFail |-> t.lastFail]
    /\ Deliver(t.view, t.kind, oc, d, e)

Replace(t, r) == (tasks (-) SetToBag({t})) (+) SetToBag({r})

Remove(t) == tasks (-) SetToBag({t})

InFlight == BagToSet(tasks)

----------------------------------------------------------------------------
(* fetchWithRetry *)

\* (mutant) the rate-limit check stands inside the try block: a denial is
\* caught and retried like the other failures
AttemptCaught(t, rest) ==
    LET c == ClientId(t.view)
        t1 == [t EXCEPT !.checks = @ + 1]
    IN
    /\ CheckRateLimit(c)
    /\ IF Allowed(c)
       THEN /\ tasks' = rest (+) SetToBag({[t1 EXCEPT !.pc = "fetch", !.since = now,
                                                      !.req = netCount[t.view][t.url] + 1,
                                                      !.netCalls = @ + 1]})
            /\ netCount' = [netCount EXCEPT ![t.view][t.url] = @ + 1]
            /\ UNCHANGED <<rateLimitExceeded, lastDone>>
            /\ UNCHANGED viewVars
       ELSE /\ rateLimitExceeded' = [rateLimitExceeded EXCEPT ![t.view] = TRUE]
            /\ UNCHANGED netCount
            /\ IF t.retryCount < MAX_RETRIES
               THEN /\ tasks' = rest (+) SetToBag({[t1 EXCEPT !.pc = "delay", !.since = now]})
                    /\ UNCHANGED lastDone
                    /\ UNCHANGED viewVars
               ELSE /\ tasks' = rest
                    /\ Finish(t1, "network", "error", NoData, RateLimitError)

\* (mutant) a retry goes to the network without asking the limiter
AttemptUngatedRetry(t, rest) ==
    LET c == ClientId(t.view)
        t1 == [t EXCEPT !.checks = @ + 1]
    IN
    IF t.retryCount > 0
    THEN /\ tasks' = rest (+) SetToBag({[t EXCEPT !.pc = "fetch", !.since = now,
                                                  !.req = netCount[t.view][t.url] + 1,
                                                  !.netCalls = @ + 1]})
         /\ netCount' = [netCount EXCEPT ![t.view][t.url] = @ + 1]
         /\ UNCHANGED <<requestCounts, allowedLog, lastCheck, rateLimitExceeded, lastDone>>
         /\ UNCHANGED viewVars
    ELSE /\ CheckRateLimit(c)
         /\ IF Allowed(c)
            THEN /\ tasks' = rest (+) SetToBag({[t1 EXCEPT !.pc = "fetch", !.since = now,
                                                           !.req = netCount[t.view][t.url] + 1,
                                                           !.netCalls = @ + 1]})
                 /\ netCount' = [netCount EXCEPT ![t.view][t.url] = @ + 1]
                 /\ UNCHANGED <<rateLimitExceeded, lastDone>>
                 /\ UNCHANGED viewVars
            ELSE /\ rateLimitExceeded' = [rateLimitExceeded EXCEPT ![t.view] = TRUE]
                 /\ tasks' = rest
                 /\ Finish(t1, "network", "error", NoData, RateLimitError)
                 /\ UNCHANGED netCount

\* (mutant) a denial throws without setting rateLimitExceeded
AttemptNoFlag(t, rest) ==
    LET c == ClientId(t.view)
        t1 == [t EXCEPT !.checks = @ + 1]
    IN
    /\ CheckRateLimit(c)
    /\ IF Allowed(c)
       THEN /\ tasks' = rest (+) SetToBag({[t1 EXCEPT !.pc = "fetch", !.since = now,
                                                      !.req = netCount[t.view][t.url] + 1,
                                                      !.netCalls = @ + 1]})
            /\ netCount' = [netCount EXCEPT ![t.view][t.url] = @ + 1]
            /\ UNCHANGED <<rateLimitExceeded, lastDone>>
            /\ UNCHANGED viewVars
       ELSE /\ tasks' = rest
            /\ Finish(t1, "network", "error", NoData, RateLimitError)
            /\ UNCHANGED <<netCount, rateLimitExceeded>>

\* One entry into fetchWithRetry(url, t.retryCount) for the call t, up to its
\* first suspension point: the rate-limit check, then either the throw of
\* the rate-limit error (the check stands before the try block, so no catch
\* of fetchWithRetry handles it) or the fetch() call.
\* rest is the bag of the other calls in flight.
Attempt(t, rest) ==
    LET c == ClientId(t.view)
        t1 == [t EXCEPT !.checks = @ + 1]
    IN
    /\ CheckRateLimit(c)
    /\ IF Allowed(c)
       THEN /\ tasks' = rest (+) SetToBag({[t1 EXCEPT !.pc = "fetch", !.since = now,
                                                      !.req = netCount[t.view][t.url] + 1,
                                                      !.netCalls = @ + 1]})
            /\ netCount' = [netCount EXCEPT ![t.view][t.url] = @ + 1]
            /\ UNCHANGED <<rateLimitExceeded, lastDone>>
            /\ UNCHANGED viewVars
       ELSE /\ rateLimitExceeded' = [rateLimitExceeded EXCEPT ![t.view] = TRUE]
            /\ tasks' = rest
            /\ Finish(t1, "network", "error", NoData, RateLimitError)
            /\ UNCHANGED netCount

\* (mutant) the catch block rethrows without retrying
CatchNoRetry(t, e, r) ==
    /\ tasks' = Remove(t)
    /\ Finish([t EXCEPT !.lastFail = e, !.lastResp = r], "network", "error", NoData, e)

\* the catch block of fetchWithRetry, entered with error e and response r
Catch(t, e, r) ==
    LET t1 == [t EXCEPT !.lastFail = e, !.lastResp = r] IN
    IF t.retryCount < MAX_RETRIES
    THEN /\ tasks' = Replace(t, [t EXCEPT !.pc = "delay", !.since = now])
         /\ UNCHANGED lastDone
         /\ UNCHANGED viewVars
    ELSE /\ tasks' = Remove(t)
         /\ Finish(t1, "network", "error", NoData, e)

\* await fetch(...) rejects: transport failure
FetchRejects(t) ==
    /\ t.pc = "fetch"
    /\ now - t.since < TIMEOUT_MS
    /\ Catch(t, NetworkError, NoResponse)
    /\ UNCHANGED <<now, requestCounts, cache, mounted, rateLimitExceeded,
                   allowedLog, lastCheck, callCount, netCount>>
    /\ UNCHANGED idleVars

\* the timeout timer fires: controller.abort() rejects the fetch
FetchAborts(t) ==
    /\ t.pc = "fetch"
    /\ now - t.since >= TIMEOUT_MS
    /\ Catch(t, AbortError, NoResponse)
    /\ UNCHANGED <<now, requestCounts, cache, mounted, rateLimitExceeded,
                   allowedLog, lastCheck, callCount, netCount>>
    /\ UNCHANGED idleVars

\* (mutant) the status is checked before the content type
ValidateStatusFirst(t, ct, status) ==
    IF ~Ok(status)
    THEN Catch(t, HttpError(status), [ct |-> ct, status |-> status])
    ELSE IF ~IncludesJson(ct)
    THEN Catch(t, ContentTypeError, [ct |-> ct, status |-> status])
    ELSE /\ tasks' = Replace(t, [t EXCEPT !.pc = "json", !.since = 0,
                                          !.resp = Payload(t.url, t.req),
                                          !.lastResp = [ct |-> ct, status |-> status]])
         /\ UNCHANGED lastDone
         /\ UNCHANGED viewVars

\* the checks of a response: content type first, then the status
Validate(t, ct, status) ==
    IF ~IncludesJson(ct)
    THEN Catch(t, ContentTypeError, [ct |-> ct, status |-> status])
    ELSE IF ~Ok(status)
    THEN Catch(t, HttpError(status), [ct |-> ct, status |-> status])
    ELSE /\ tasks' = Replace(t, [t EXCEPT !.pc = "json", !.since = 0,
                                          !.resp = Payload(t.url, t.req),
                                          !.lastResp = [ct |-> ct, status |-> status]])
         /\ UNCHANGED lastDone
         /\ UNCHANGED viewVars

\* await fetch(...) resolves with a response
FetchResolves(t) ==
    /\ t.pc = "fetch"
    /\ now - t.since < TIMEOUT_MS
    /\ \E ct \in ContentTypes, status \in Statuses :
          Validate(t, ct, status)
    /\ UNCHANGED <<now, requestCounts, cache, mounted, rateLimitExceeded,
                   allowedLog, lastCheck, callCount, netCount>>
    /\ UNCHANGED idleVars

\* has the retry timer of a delay begun at `since` run out
DelayOver(since) == now - since >= RETRY_DELAY_MS

\* the retry timer fires: return fetchWithRetry(url, retryCount + 1)
RetryTimer(t) ==
    /\ t.pc = "delay"
    /\ DelayOver(t.since)
    /\ Attempt([t EXCEPT !.retryCount = @ + 1, !.delays = @ + 1,
                         !.waited = @ /\ (now - t.since >= RETRY_DELAY_MS)],
               Remove(t))
    /\ UNCHANGED <<now, cache, mounted, callCount>>
    /\ UNCHANGED idleVars

----------------------------------------------------------------------------
(* fetchWithCache *)

\* (mutant) the age is compared with <=
FreshInclusive(entry, t) == entry # NoEntry /\ (t - entry.timestamp) <= DURATION_MS

\* (mutant) an entry is served whatever its age
FreshAlways(entry, t) == entry # NoEntry

\* cached && (now - cached.timestamp) < DURATION_MS
Fresh(entry, t) == entry # NoEntry /\ (t - entry.timestamp) < DURATION_MS

\* (mutant) an entry that holds the response of a later request is kept
CacheSetKeepsLater(v, url, d, tries) ==
    IF cache[v][url].data.req > d.req
    THEN cache
    ELSE [cache EXCEPT ![v][url] = [data |-> d, timestamp |-> now, tries |-> tries]]

\* (mutant) the components share one map
CacheSetForAll(v, url, d, tries) ==
    [w \in Views |->
        [cache[w] EXCEPT ![url] = [data |-> d, timestamp |-> now, tries |-> tries]]]

\* cache.set(url, {data, timestamp: Date.now()})
CacheSet(v, url, d, tries) ==
    [cache EXCEPT ![v][url] = [data |-> d, timestamp |-> now, tries |-> tries]]

\* A call fetchWithCache(url) by component v, up to its first suspension
\* point or its return.
FetchWithCache(v, kind, id, url) ==
    LET cached == cache[v][url]
        t0 == [NewTask(v, kind, id, url) EXCEPT
                  !.age = IF cached = NoEntry THEN -1 ELSE now - cached.timestamp,
                  !.seen = cached.data]
    IN
    /\ callCount' = [callCount EXCEPT ![v][url] = @ + 1]
    /\ IF CACHE_ENABLED /\ Fresh(cached, now)
       THEN /\ Finish(t0, "cache", "ok", cached.data, NoError)
            /\ UNCHANGED <<tasks, requestCounts, rateLimitExceeded, allowedLog,
                           lastCheck, netCount>>
       ELSE Attempt(t0, tasks)
    /\ UNCHANGED <<now, cache>>
    /\ UNCHANGED <<maxRequests, served, searchQuery, sortField, sortDirection, sanitizer,
                   uiEvent>>

\* (mutant) the entry is stamped with the time of the lookup, the `now` of
\* the call's first lines, instead of the time of the store
JsonResolvesStampsLookup(t) ==
    /\ t.pc = "json"
    /\ cache' = IF CACHE_ENABLED
                THEN [cache EXCEPT ![t.view][t.url] =
                         [data |-> t.resp, timestamp |-> t.began, tries |-> t.netCalls]]
                ELSE cache
    /\ tasks' = Remove(t)
    /\ Finish(t, "network", "ok", t.resp, NoError)
    /\ UNCHANGED <<now, requestCounts, mounted, rateLimitExceeded, allowedLog,
                   lastCheck, callCount, netCount>>
    /\ UNCHANGED idleVars

\* await response.json() resolves
JsonResolves(t) ==
    /\ t.pc = "json"
    /\ cache' = IF CACHE_ENABLED THEN CacheSet(t.view, t.url, t.resp, t.netCalls) ELSE cache
    /\ tasks' = Remove(t)
    /\ Finish(t, "network", "ok", t.resp, NoError)
    /\ UNCHANGED <<now, requestCounts, mounted, rateLimitExceeded, allowedLog,
                   lastCheck, callCount, netCount>>
    /\ UNCHANGED idleVars

\* (mutant) a body that cannot be parsed removes the entry of the URL
JsonRejectsDropsEntry(t) ==
    /\ t.pc = "json"
    /\ cache' = [cache EXCEPT ![t.view][t.url] = NoEntry]
    /\ tasks' = Remove(t)
    /\ Finish(t, "network", "error", NoData, ParseError)
    /\ UNCHANGED <<now, requestCounts, mounted, rateLimitExceeded, allowedLog,
                   lastCheck, callCount, netCount>>
    /\ UNCHANGED idleVars

\* await response.json() rejects: the body is not JSON
JsonRejects(t) ==
    /\ t.pc = "json"
    /\ tasks' = Remove(t)
    /\ Finish(t, "network", "error", NoData, ParseError)
    /\ UNCHANGED <<now, requestCounts, cache, mounted, rateLimitExceeded, allowedLog,
                   lastCheck, callCount, netCount>>
    /\ UNCHANGED idleVars

----------------------------------------------------------------------------
(* The components *)

\* fetchWithCache calls made so far
RECURSIVE SumOver(_, _)
SumOver(f, S) ==
    IF S = {} THEN 0
    ELSE LET x == CHOOSE y \in S : TRUE IN f[x] + SumOver(f, S \ {x})

TotalCalls == SumOver([p \in Views \X Urls |-> callCount[p[1]][p[2]]], Views \X Urls)

\* onMount(async () => { reports = await fetchWithCache(url); ... })
Mount(v) ==
    /\ ~mounted[v]
    /\ TotalCalls < MaxTasks
    /\ mounted' = [mounted EXCEPT ![v] = TRUE]
    /\ FetchWithCache(v, "list", << >>, ListUrl)
    /\ UNCHANGED selectedId

\* the "View Details" button of a rendered row: showReportDetails(id)
ShowReportDetails(id) ==
    /\ ~loading["table"]
    /\ error["table"] = NoError
    /\ \E i \in DOMAIN filteredReports : filteredReports[i]._id = id
    /\ TotalCalls < MaxTasks
    /\ FetchWithCache("table", "detail", id, DetailUrl(id))
    /\ selectedId' = id
    /\ UNCHANGED mounted

\* time passes
Tick ==
    /\ now < MaxTime
    /\ now' = now + 1
    /\ UNCHANGED <<requestCounts, cache, tasks, mounted, rateLimitExceeded,
                   allowedLog, lastCheck, lastDone, callCount, netCount>>
    /\ UNCHANGED viewVars
    /\ UNCHANGED idleVars

\* the state after construction, given the configured limit, the backend's
\* collection and the string a sanitizer is to be applied to
InitWith(limit, collection, str) ==
    /\ now = 0
    /\ requestCounts = [c \in ClientIds |-> << >>]
    /\ cache = [v \in Views |-> [u \in Urls |-> NoEntry]]
    /\ tasks = EmptyBag
    /\ mounted = [v \in Views |-> FALSE]
    /\ loading = [v \in Views |-> TRUE]
    /\ error = [v \in Views |-> NoError]
    /\ reports = [v \in Views |-> NoData]
    /\ rateLimitExceeded = [v \in Views |-> FALSE]
    /\ selectedReport = NoData
    /\ modalOpen = FALSE
    /\ searchQuery = << >>
    /\ filteredReports = << >>
    /\ sortField = "reporttime"
    /\ sortDirection = "desc"
    /\ statistics = NoStatistics
    /\ maxRequests = limit
    /\ served = collection
    /\ sanitizer = [fn |-> "none", arg |-> str, once |-> << >>, twice |-> << >>,
                    calls |-> 0]
    /\ uiEvent = [name |-> "none", arg |-> << >>, flip |-> FALSE]
    /\ selectedId = << >>
    /\ allowedLog = [c \in ClientIds |-> << >>]
    /\ lastCheck = [client |-> "none", result |-> FALSE, n |-> 0]
    /\ lastDone = [view |-> "none", kind |-> "none", url |-> << >>, via |-> "none",
                   outcome |-> "none", data |-> NoData, err |-> NoError,
                   retryCount |-> 0, age |-> -1, seen |-> NoData,
                   netCalls |-> 0, checks |-> 0,
                   delays |-> 0, waited |-> TRUE,
                   lastResp |-> NoResponse, lastFail |-> NoError]
    /\ callCount = [v \in Views |-> [u \in Urls |-> 0]]
    /\ netCount = [v \in Views |-> [u \in Urls |-> 0]]

Init == InitWith(MAX_REQUESTS, <<ReportA>>, << >>)

Next ==
    \/ \E v \in Views : Mount(v)
    \/ \E id \in ReportIds : ShowReportDetails(id)
    \/ \E t \in InFlight : FetchRejects(t)
    \/ \E t \in InFlight : FetchAborts(t)
    \/ \E t \in InFlight : FetchResolves(t)
    \/ \E t \in InFlight : RetryTimer(t)
    \/ \E t \in InFlight : JsonResolves(t)
    \/ \E t \in InFlight : JsonRejects(t)
    \/ Tick

Spec == Init /\ [][Next]_vars

\* the components with a limit configured as low as one request per window
LimitInit == \E limit \in 1..MAX_REQUESTS : InitWith(limit, <<ReportA>>, << >>)

LimitSpec == LimitInit /\ [][Next]_vars

\* the branch of the statistics template that is rendered:
\* {#if loading} {:else if error} {:else if rateLimitExceeded} {:else}
StatsShown ==
    IF loading["stats"] THEN "spinner"
    ELSE IF error["stats"] # NoError THEN "error"
    ELSE IF rateLimitExceeded["stats"] THEN "rateLimit"
    ELSE "tables"

\* the variables of the fetch machinery and of the calls made to it
fetchVars == <<now, requestCounts, cache, tasks, mounted, rateLimitExceeded,
               selectedId, allowedLog, lastCheck, lastDone, callCount, netCount>>

----------------------------------------------------------------------------
(* The sanitizers as pure functions: applied once, then again to the result *)

SanitizerChars == {"<", ">", "'", "\"", "&", "a"}

Strings == UNION {[1..n -> SanitizerChars] : n \in 0..MaxLen}

ApplySanitizeInput ==
    /\ sanitizer.fn \in {"none", "sanitizeInput"}
    /\ sanitizer.calls < 2
    /\ sanitizer' =
          IF sanitizer.calls = 0
          THEN [sanitizer EXCEPT !.fn = "sanitizeInput", !.calls = 1,
                                 !.once = SanitizeInput(sanitizer.arg)]
          ELSE [sanitizer EXCEPT !.calls = 2, !.twice = SanitizeInput(sanitizer.once)]
    /\ UNCHANGED <<maxRequests, served, searchQuery, sortField, sortDirection, uiEvent>>
    /\ UNCHANGED viewVars
    /\ UNCHANGED fetchVars

ApplySanitizeHtml ==
    /\ sanitizer.fn \in {"none", "sanitizeHtml"}
    /\ sanitizer.calls < 2
    /\ sanitizer' =
          IF sanitizer.calls = 0
          THEN [sanitizer EXCEPT !.fn = "sanitizeHtml", !.calls = 1,
                                 !.once = SanitizeHtml(sanitizer.arg)]
          ELSE [sanitizer EXCEPT !.calls = 2, !.twice = SanitizeHtml(sanitizer.once)]
    /\ UNCHANGED <<maxRequests, served, searchQuery, sortField, sortDirection, uiEvent>>
    /\ UNCHANGED viewVars
    /\ UNCHANGED fetchVars

SanitizeInit == \E str \in Strings : InitWith(MAX_REQUESTS, <<ReportA>>, str)

SanitizeNext == ApplySanitizeInput \/ ApplySanitizeHtml

SanitizeSpec == SanitizeInit /\ [][SanitizeNext]_vars

----------------------------------------------------------------------------
(* The report table with its search box, column headers and detail view *)

Queries == {<< >>, <<"E", "v">>, <<"<", "v">>, <<"z">>}

SortFields == {"violateddirective", "blockeduri", "clientip", "useragent", "reporttime"}

\* the search box: bind:value={searchQuery}, then the reactive block
SetSearchQuery(q) ==
    /\ q # searchQuery
    /\ searchQuery' = q
    /\ filteredReports' = FilterReports(Rows(reports["table"]), q)
    /\ uiEvent' = [name |-> "search", arg |-> q, flip |-> ~uiEvent.flip]
    /\ UNCHANGED <<loading, error, reports, selectedReport, modalOpen, statistics,
                   sortField, sortDirection, maxRequests, served, sanitizer>>
    /\ UNCHANGED fetchVars

\* (mutant) a click always sorts ascending
NextDirectionAscending(field) == "asc"

\* the direction sortReports(field) sets
NextDirection(field) ==
    IF sortField = field
    THEN IF sortDirection = "asc" THEN "desc" ELSE "asc"
    ELSE "asc"

\* aValue > bValue on a report field: numbers for reporttime, else strings
Greater(x, y, field) ==
    IF field = "reporttime" THEN x > y ELSE StringGreater(x, y)

\* the comparator sortReports gives to Array.prototype.sort; it never
\* returns 0
Compare(a, b, field, direction) ==
    IF direction = "asc"
    THEN IF Greater(a[field], b[field], field) THEN 1 ELSE -1
    ELSE IF Greater(b[field], a[field], field) THEN 1 ELSE -1

Rearrangements(rs) == {[i \in DOMAIN rs |-> rs[f[i]]] : f \in Permutations(DOMAIN rs)}

\* what filteredReports.sort(comparator) may leave: the rows in an order
\* in which no row stands before one the comparator puts it behind; rows
\* with equal values, on which the comparator contradicts itself, in any
\* order
SortOutcomes(rs, field, direction) ==
    {p \in Rearrangements(rs) :
        \A i, j \in DOMAIN p : i < j => Compare(p[i], p[j], field, direction) = -1}

\* a click on a column header: sortReports(field)
SortReports(field) ==
    /\ ~loading["table"]
    /\ error["table"] = NoError
    /\ sortField' = field
    /\ sortDirection' = NextDirection(field)
    /\ filteredReports' \in SortOutcomes(filteredReports, field, NextDirection(field))
    /\ uiEvent' = [name |-> "sort", arg |-> <<field>>, flip |-> ~uiEvent.flip]
    /\ UNCHANGED <<loading, error, reports, selectedReport, modalOpen, statistics,
                   searchQuery, maxRequests, served, sanitizer>>
    /\ UNCHANGED fetchVars

\* (mutant) closing the detail view resets the search
CloseModalResetsSearch ==
    /\ modalOpen' = FALSE
    /\ selectedReport' = NoData
    /\ searchQuery' = << >>
    /\ filteredReports' = FilterReports(Rows(reports["table"]), << >>)
    /\ UNCHANGED <<loading, error, reports, statistics, sortField, sortDirection>>

\* closeModal()
CloseModal ==
    /\ modalOpen' = FALSE
    /\ selectedReport' = NoData
    /\ UNCHANGED <<loading, error, reports, filteredReports, statistics, searchQuery,
                   sortField, sortDirection>>

\* is the detail view rendered: {#if modalOpen && selectedReport}
ModalShown == modalOpen /\ selectedReport # NoData

\* a click on the Close button or on the backdrop of the detail view
ClickClose(button) ==
    /\ ModalShown
    /\ CloseModal
    /\ uiEvent' = [name |-> button, arg |-> << >>, flip |-> ~uiEvent.flip]
    /\ UNCHANGED <<maxRequests, served, sanitizer>>
    /\ UNCHANGED fetchVars

\* handleKeydown(event)
HandleKeydown(key) ==
    IF key = "Escape" /\ modalOpen
    THEN CloseModal
    ELSE UNCHANGED <<loading, error, reports, selectedReport, modalOpen, filteredReports,
                     statistics, searchQuery, sortField, sortDirection>>

\* a key is pressed: the window has the keydown listener while modalOpen
KeyDown(key) ==
    /\ IF modalOpen
       THEN HandleKeydown(key)
       ELSE UNCHANGED <<loading, error, reports, selectedReport, modalOpen,
                        filteredReports, statistics, searchQuery, sortField,
                        sortDirection>>
    /\ uiEvent' = [name |-> "keydown", arg |-> <<key>>, flip |-> ~uiEvent.flip]
    /\ UNCHANGED <<maxRequests, served, sanitizer>>
    /\ UNCHANGED fetchVars

\* the collections the backend may hold: reports with different ids
Collections ==
    {c \in UNION {[1..n -> Reports] : n \in 0..Cardinality(Reports)} :
        \A i, j \in DOMAIN c : i # j => c[i] # c[j]}

TableInit == \E collection \in Collections : InitWith(MAX_REQUESTS, collection, << >>)

TableNext ==
    \/ Mount("table")
    \/ \E id \in ReportIds : ShowReportDetails(id)
    \/ \E t \in InFlight : FetchRejects(t)
    \/ \E t \in InFlight : FetchResolves(t)
    \/ \E t \in InFlight : JsonResolves(t)
    \/ \E t \in InFlight : JsonRejects(t)
    \/ \E q \in Queries : SetSearchQuery(q)
    \/ \E field \in SortFields : SortReports(field)
    \/ \E button \in {"close", "backdrop"} : ClickClose(button)
    \/ \E key \in {"Escape", "Enter"} : KeyDown(key)

TableSpec == TableInit /\ [][TableNext]_vars

----------------------------------------------------------------------------
(* The statistics component on many collections, within one clock tick *)

Nines(n) == [j \in 1..n |-> "9"]

\* the n-th of a family of reports that differ from each other, and from
\* ReportA, ReportB and ReportC, in client IP, blocked URI and referrer
OtherReport(n) ==
    [_id |-> Nines(n), violateddirective |-> <<"s">>, blockeduri |-> Nines(n),
     clientip |-> Nines(n), useragent |-> <<"M">>, referrer |-> Nines(n),
     reporttime |-> 1]

OtherReports(k) == [n \in 1..k |-> OtherReport(n)]

Heads == UNION {[1..n -> Reports] : n \in 0..MaxHead}

\* up to MaxHead reports chosen freely among ReportA, ReportB, ReportC,
\* before or after up to TOP_ENTRIES + 1 reports of the other family
StatsCollections ==
    {h \o OtherReports(k) : h \in Heads, k \in 0..(TOP_ENTRIES + 1)}
        \cup {OtherReports(k) \o h : h \in Heads, k \in 0..(TOP_ENTRIES + 1)}

StatsInit == \E collection \in StatsCollections : InitWith(MAX_REQUESTS, collection, << >>)

StatsNext ==
    \/ Mount("stats")
    \/ \E t \in InFlight : FetchRejects(t)
    \/ \E t \in InFlight : FetchResolves(t)
    \/ \E t \in InFlight : JsonResolves(t)
    \/ \E t \in InFlight : JsonRejects(t)

StatsSpec == StatsInit /\ [][StatsNext]_vars

----------------------------------------------------------------------------
(* The report table under fair scheduling: a timer fires when it is due,    *)
(* a request and a body read settle.  The component is mounted early enough *)
(* for the clock of the model to cover the retries of its collection fetch. *)

MountInTime(v) ==
    /\ now + MAX_RETRIES * (TIMEOUT_MS + RETRY_DELAY_MS) <= MaxTime
    /\ Mount(v)

\* has a timer of the call t run out: the abort timer or the retry timer
TimerDue(t) ==
    \/ t.pc = "fetch" /\ now - t.since >= TIMEOUT_MS
    \/ t.pc = "delay" /\ DelayOver(t.since)

\* time passes, but not past a timer that is due
TickOnTime ==
    /\ \A t \in InFlight : ~TimerDue(t)
    /\ Tick

\* the next step of the call t, whatever it is
Settle(t) ==
    \/ FetchRejects(t)
    \/ FetchAborts(t)
    \/ FetchResolves(t)
    \/ RetryTimer(t)
    \/ JsonResolves(t)
    \/ JsonRejects(t)

\* the configured limit may be as low as one request per window
FairInit == \E limit \in 1..MAX_REQUESTS : InitWith(limit, <<ReportA>>, << >>)

FairNext ==
    \/ MountInTime("table")
    \/ \E id \in ReportIds : ShowReportDetails(id)
    \/ \E t \in InFlight : FetchRejects(t)
    \/ \E t \in InFlight : FetchAborts(t)
    \/ \E t \in InFlight : FetchResolves(t)
    \/ \E t \in InFlight : RetryTimer(t)
    \/ \E t \in InFlight : JsonResolves(t)
    \/ \E t \in InFlight : JsonRejects(t)
    \/ TickOnTime

Fairness ==
    /\ WF_vars(TickOnTime)
    /\ \A kind \in {"list", "detail"} :
          WF_vars(\E t \in InFlight : t.kind = kind /\ Settle(t))

FairSpec == FairInit /\ [][FairNext]_vars /\ Fairness

----------------------------------------------------------------------------
(* Properties of the rate limiter *)

\* a step in which checkRateLimit was called
Checked == lastCheck'.n # lastCheck.n

\* the allowed calls of client c logged with a timestamp in the window
\* that trails time t
AllowedInWindow(c, t) ==
    {i \in DOMAIN allowedLog[c] :
        allowedLog[c][i] <= t /\ t - allowedLog[c][i] < WINDOW_MS}

\* C1: checkRateLimit(c) returns true exactly when fewer than MAX_REQUESTS
\* of the calls allowed before for c have a timestamp t with
\* now - t < WINDOW_MS.
C1_AllowedIffBelowLimit ==
    [][Checked =>
          (lastCheck'.result <=>
              Cardinality(AllowedInWindow(lastCheck'.client, now)) < MAX_REQUESTS)]_vars

\* C1 witness: a client was allowed MAX_REQUESTS times, then denied, and is
\* allowed again once the window has passed.
C1_Witness ==
    /\ lastCheck.client = "client_table"
    /\ lastCheck.result
    /\ rateLimitExceeded["table"]
    /\ Len(allowedLog["client_table"]) = MAX_REQUESTS + 1

\* C2: at every time t up to now and for every client, at most MAX_REQUESTS
\* calls were allowed in the window of length WINDOW_MS that trails t.
C2_SlidingWindowBound ==
    \A c \in ClientIds : \A t \in 0..now :
        Cardinality(AllowedInWindow(c, t)) <= MAX_REQUESTS

\* C2 witness: a client has been denied, and allowed more than MAX_REQUESTS
\* times over several windows.
C2_Witness ==
    /\ rateLimitExceeded["table"]
    /\ Len(allowedLog["client_table"]) > MAX_REQUESTS
    /\ Cardinality(AllowedInWindow("client_table", now)) = MAX_REQUESTS

\* C3: a checkRateLimit call that returns false leaves the stored timestamp
\* sequence of every client as it was.
C3_DeniedCallRecordsNothing ==
    [][(Checked /\ ~lastCheck'.result) => requestCounts' = requestCounts]_vars

\* C3 witness: a call has just been denied while the denied client and
\* another client both have timestamps stored.
C3_Witness ==
    /\ lastCheck.n > 0
    /\ ~lastCheck.result
    /\ lastCheck.client = "client_table"
    /\ requestCounts["client_table"] # << >>
    /\ requestCounts["client_stats"] # << >>

\* C4: after any checkRateLimit(c) call at time now, the stored sequence of c
\* holds only timestamps in [now - WINDOW_MS, now], in ascending order.
C4_StoredWindowAscending ==
    [][Checked =>
          LET s == requestCounts'[lastCheck'.client] IN
          /\ \A i \in DOMAIN s : now - WINDOW_MS <= s[i] /\ s[i] <= now
          /\ \A i, j \in DOMAIN s : i < j => s[i] <= s[j]]_vars

\* C4 witness: a check has dropped an old timestamp and stored a new one
\* behind one that was kept.
C4_Witness ==
    /\ lastCheck.result
    /\ Len(requestCounts[lastCheck.client]) = 2
    /\ Len(allowedLog[lastCheck.client]) > 2
    /\ requestCounts[lastCheck.client][2] = now

----------------------------------------------------------------------------
(* Properties of fetchWithRetry *)

\* the failures of one attempt that the catch block of fetchWithRetry sees
AttemptErrors ==
    {NetworkError, AbortError, ContentTypeError} \cup {HttpError(st) : st \in Statuses}

\* C5: a call that the limiter denies fails at once with the rate-limit
\* error, at any attempt number: the denied attempt issues no fetch(), no
\* attempt follows it and no retry delay is waited after it.
C5_DenialFailsAtOnce ==
    lastDone.err = RateLimitError =>
        /\ lastDone.outcome = "error"
        /\ lastDone.data = NoData
        /\ rateLimitExceeded[lastDone.view]
        /\ lastDone.netCalls = lastDone.checks - 1
        /\ lastDone.checks = lastDone.retryCount + 1
        /\ lastDone.delays = lastDone.retryCount

\* C5 witness: a call was denied on its first attempt, with retries left,
\* and has failed without a fetch().
C5_Witness ==
    /\ lastDone.err = RateLimitError
    /\ lastDone.retryCount = 0
    /\ lastDone.retryCount < MAX_RETRIES
    /\ lastDone.netCalls = 0

\* C6: every failure of an attempt is retried after RETRY_DELAY_MS while
\* retryCount < MAX_RETRIES; at most MAX_RETRIES + 1 attempts are made; a
\* call that succeeds returns the response of its last attempt, also when
\* that is the last allowed one, and the failure of the attempt numbered
\* MAX_RETRIES reaches the caller as it is.
C6_RetryUpToCeiling ==
    /\ \A t \in InFlight :
          /\ t.retryCount <= MAX_RETRIES
          /\ t.netCalls <= MAX_RETRIES + 1
          /\ t.delays = t.retryCount
          /\ t.waited
    /\ lastDone.retryCount <= MAX_RETRIES
    /\ lastDone.netCalls <= MAX_RETRIES + 1
    /\ lastDone.delays = lastDone.retryCount
    /\ lastDone.waited
    /\ (lastDone.outcome = "error" /\ lastDone.err \in AttemptErrors) =>
          /\ lastDone.retryCount = MAX_RETRIES
          /\ lastDone.netCalls = MAX_RETRIES + 1
          /\ lastDone.err = lastDone.lastFail
    /\ (lastDone.outcome = "ok" /\ lastDone.via = "network") =>
          /\ lastDone.netCalls = lastDone.retryCount + 1
          /\ lastDone.data = Payload(lastDone.url, lastDone.data.req)
          /\ lastDone.data.req >= lastDone.netCalls

\* C6 witness: one call has succeeded on the last allowed attempt and stored
\* its result, and another has failed on all MAX_RETRIES + 1 attempts.
C6_Witness ==
    /\ cache["table"][ListUrl].tries = MAX_RETRIES + 1
    /\ lastDone.outcome = "error"
    /\ lastDone.err = HttpError(500)
    /\ lastDone.retryCount = MAX_RETRIES
    /\ lastDone.netCalls = MAX_RETRIES + 1

\* C7 as claimed: a denial is retried while retryCount < MAX_RETRIES, so a
\* rate-limit error reaches the caller only from the attempt numbered
\* MAX_RETRIES.
C7_DenialIsRetried ==
    lastDone.err = RateLimitError => lastDone.retryCount = MAX_RETRIES

\* C7 as amended: a denial is never retried, and every attempt, retries
\* included, passes the limiter.  So a call ends with the rate-limit error
\* at the first denial, after one fetch() for each attempt before it.
C7_DenialEndsTheRetries ==
    /\ \A t \in InFlight :
          /\ t.checks = t.retryCount + 1
          /\ t.netCalls = t.checks
    /\ lastDone.via = "network" => lastDone.checks = lastDone.retryCount + 1
    /\ lastDone.err = RateLimitError => lastDone.netCalls = lastDone.retryCount

\* C7 witness: a retry of a failed attempt was denied.
C7_Witness ==
    /\ lastDone.err = RateLimitError
    /\ lastDone.retryCount >= 1
    /\ lastDone.netCalls = lastDone.retryCount

\* is application/json part of the Content-Type header
JsonHeader(ct) == ct \in {"application/json", "application/json; charset=utf-8"}

\* C8: a response reaches the caller only with a JSON content type and a 2xx
\* status; another or a missing content type fails with the content-type
\* error whatever the status, and a JSON response with another status fails
\* with the error that carries the status.
C8_OnlyJson2xxReturned ==
    /\ \A t \in InFlight :
          t.pc = "json" =>
              /\ JsonHeader(t.lastResp.ct)
              /\ t.lastResp.status \in 200..299
    /\ (lastDone.via = "network" /\ lastDone.outcome = "ok") =>
          /\ JsonHeader(lastDone.lastResp.ct)
          /\ lastDone.lastResp.status \in 200..299
    /\ (lastDone.outcome = "error" /\ lastDone.err \notin {RateLimitError, ParseError}) =>
          IF lastDone.lastResp = NoResponse
          THEN lastDone.err \in {NetworkError, AbortError}
          ELSE IF ~JsonHeader(lastDone.lastResp.ct)
          THEN /\ lastDone.err = ContentTypeError
               /\ lastDone.err.kind # HttpError(lastDone.lastResp.status).kind
          ELSE /\ lastDone.lastResp.status \notin 200..299
               /\ lastDone.err = HttpError(lastDone.lastResp.status)
               /\ lastDone.err.status = lastDone.lastResp.status

\* C8 witness: a response with a failure status and a content type other
\* than JSON has failed the call with the content-type error.
C8_Witness ==
    /\ lastDone.outcome = "error"
    /\ lastDone.lastResp = [ct |-> "text/html", status |-> 500]
    /\ lastDone.err = ContentTypeError

----------------------------------------------------------------------------
(* Properties of fetchWithCache *)

\* the calls of component v for url that are in flight
Pending(v, url) == {t \in InFlight : t.view = v /\ t.url = url}

\* C9 as claimed: two calls of fetchWithCache for one URL made within
\* DURATION_MS of each other issue exactly one fetch() in total.  Two calls
\* are known to be that close when both are made before time DURATION_MS,
\* or when both wait for their first fetch(), issued less than DURATION_MS
\* apart; in neither case may a second fetch() have been issued.
C9_TwoCallsOneFetch ==
    /\ \A v \in Views, url \in Urls :
          (now < DURATION_MS /\ callCount[v][url] = 2 /\ Pending(v, url) = {})
              => netCount[v][url] = 1
    /\ \A t1, t2 \in InFlight :
          (/\ t1.view = t2.view /\ t1.url = t2.url
           /\ t1.pc = "fetch" /\ t2.pc = "fetch"
           /\ t1.retryCount = 0 /\ t2.retryCount = 0
           /\ t1 # t2 \/ CopiesIn(t1, tasks) > 1
           /\ t1.since - t2.since < DURATION_MS
           /\ t2.since - t1.since < DURATION_MS)
              => netCount[t1.view][t1.url] <= 1

\* C9 as amended: a lookup that finds an entry younger than DURATION_MS
\* returns the stored payload with no fetch() and no rate-limit check; so
\* the second of two calls of a component for a URL, made after the first
\* stored its result and less than DURATION_MS later, adds no fetch() to
\* those of the first: one in total if the first succeeded at once.
C9_FreshEntryServedWithoutFetch ==
    /\ lastDone.via = "cache" =>
          /\ lastDone.outcome = "ok"
          /\ lastDone.age >= 0
          /\ lastDone.age < DURATION_MS
          /\ lastDone.netCalls = 0
          /\ lastDone.checks = 0
          /\ lastDone.data = lastDone.seen
          /\ lastDone.data = cache[lastDone.view][lastDone.url].data
    /\ \A v \in Views, url \in Urls :
          (callCount[v][url] = 2 /\ lastDone.via = "cache"
              /\ lastDone.view = v /\ lastDone.url = url) =>
                /\ netCount[v][url] = cache[v][url].tries
                /\ (cache[v][url].tries = 1 => netCount[v][url] = 1)

\* C9 witness: the second call for a URL was served from the entry the first
\* had stored, and one fetch() was issued in all.
C9_Witness ==
    /\ lastDone.via = "cache"
    /\ lastDone.view = "table"
    /\ callCount["table"][lastDone.url] = 2
    /\ netCount["table"][lastDone.url] = 1

\* C10: a call that finds an entry of age >= DURATION_MS goes on to
\* fetchWithRetry; it returns the body of a response of its own, never the
\* stored payload, and fails with the error if the fetch fails.
C10_StaleEntryNeverServed ==
    lastDone.age >= DURATION_MS =>
        /\ lastDone.via = "network"
        /\ lastDone.checks >= 1
        /\ lastDone.outcome = "ok" =>
              /\ lastDone.netCalls >= 1
              /\ lastDone.data.req > lastDone.seen.req
              /\ lastDone.data # lastDone.seen
        /\ lastDone.outcome = "error" =>
              /\ lastDone.data = NoData
              /\ lastDone.err # NoError

\* C10 witness: a call found a stale entry, its fetch failed and it failed
\* with the error.
C10_Witness ==
    /\ lastDone.age >= DURATION_MS
    /\ lastDone.seen # NoData
    /\ lastDone.outcome = "error"
    /\ lastDone.netCalls >= 1

----------------------------------------------------------------------------
(* Properties of the sanitizers *)

Stripped == {"<", ">", "'", "\""}

\* the positions of s that hold a character sanitizeInput does not remove
KeptAt(s) == {i \in DOMAIN s : s[i] \notin Stripped}

\* the k-th smallest element of the set of positions P
Nth(P, k) == CHOOSE i \in P : Cardinality({j \in P : j <= i}) = k

\* C18: sanitizeInput(s) holds none of < > ' " and holds every other
\* character of s, in the order of s; applied to its own result it returns
\* that result.
C18_SanitizeInputStripsAndIsIdempotent ==
    sanitizer.fn = "sanitizeInput" =>
        /\ \A i \in DOMAIN sanitizer.once : sanitizer.once[i] \notin Stripped
        /\ Len(sanitizer.once) = Cardinality(KeptAt(sanitizer.arg))
        /\ \A k \in DOMAIN sanitizer.once :
              sanitizer.once[k] = sanitizer.arg[Nth(KeptAt(sanitizer.arg), k)]
        /\ sanitizer.calls = 2 => sanitizer.twice = sanitizer.once

\* C18 witness: sanitizeInput was applied twice to a string with two
\* stripped characters around a kept one.
C18_Witness ==
    /\ sanitizer.fn = "sanitizeInput"
    /\ sanitizer.calls = 2
    /\ sanitizer.arg = <<"<", "a", "'">>
    /\ sanitizer.once = <<"a">>

\* what sanitizeHtml is to put in the place of one character
Escaped(ch) ==
    IF ch = "<" THEN <<"&", "l", "t", ";">>
    ELSE IF ch = ">" THEN <<"&", "g", "t", ";">>
    ELSE IF ch = "\"" THEN <<"&", "q", "u", "o", "t", ";">>
    ELSE IF ch = "'" THEN <<"&", "#", "0", "3", "9", ";">>
    ELSE <<ch>>

RECURSIVE EscapedInPlace(_)
EscapedInPlace(s) ==
    IF s = << >> THEN << >> ELSE Escaped(Head(s)) \o EscapedInPlace(Tail(s))

\* C19: sanitizeHtml(s) holds no literal < > " or ': it is s with every
\* occurrence of the four characters replaced by its entity, and with every
\* other character, the ampersand included, unchanged and in place.
C19_SanitizeHtmlEscapesInPlace ==
    (sanitizer.fn = "sanitizeHtml" /\ sanitizer.calls >= 1) =>
        /\ \A i \in DOMAIN sanitizer.once : sanitizer.once[i] \notin Stripped
        /\ sanitizer.once = EscapedInPlace(sanitizer.arg)

\* C19 witness: sanitizeHtml was applied to a string with an ampersand, a
\* less-than sign and a single quote.
C19_Witness ==
    /\ sanitizer.fn = "sanitizeHtml"
    /\ sanitizer.calls = 1
    /\ sanitizer.arg = <<"&", "<", "'">>
    /\ sanitizer.once = <<"&", "&", "l", "t", ";", "&", "#", "0", "3", "9", ";">>

\* C20 as claimed: there is a string, the one in hand or another, whose
\* second sanitizeHtml application differs from its first.
C20_SomeStringIsReEscaped ==
    \E str \in Strings \cup {sanitizer.arg} :
        SanitizeHtml(SanitizeHtml(str)) # SanitizeHtml(str)

\* C20 as amended: the second application of sanitizeHtml returns what the
\* first returned: the entities hold an ampersand but none of the four
\* escaped characters, and the ampersand is not escaped.
C20_SanitizeHtmlIsIdempotent ==
    (sanitizer.fn = "sanitizeHtml" /\ sanitizer.calls = 2) =>
        /\ sanitizer.twice = sanitizer.once
        /\ Len(sanitizer.twice) = Len(EscapedInPlace(sanitizer.arg))

\* C20 witness: sanitizeHtml was applied twice to a string whose first
\* result holds entities.
C20_Witness ==
    /\ sanitizer.fn = "sanitizeHtml"
    /\ sanitizer.calls = 2
    /\ sanitizer.arg = <<"<", "\"", "&">>
    /\ Len(sanitizer.once) > Len(sanitizer.arg)
    /\ sanitizer.twice = sanitizer.once

----------------------------------------------------------------------------
(* Properties of the statistics component *)

\* the reports the statistics component has fetched
StatsReports == Rows(reports["stats"])

StatsReady == ~loading["stats"] /\ error["stats"] = NoError

Occurrences(keys, k) == Cardinality({n \in DOMAIN keys : keys[n] = k})

\* what C17 says of a table, for the values keys: at most TOP_ENTRIES
\* entries, counts non-increasing, each count the number of occurrences of
\* the entry's key, and no value left out with a larger count than an entry
IsRankedCount(table, keys) ==
    /\ Len(table) <= TOP_ENTRIES
    /\ \A i, j \in DOMAIN table : i < j => table[i].count >= table[j].count
    /\ \A i \in DOMAIN table : table[i].count = Occurrences(keys, table[i].key)
    /\ \A n \in DOMAIN keys :
          (\A i \in DOMAIN table : table[i].key # keys[n]) =>
              \A i \in DOMAIN table : Occurrences(keys, keys[n]) <= table[i].count

\* table is the top table of the values keys: a ranked count with one entry
\* for a key, from which a value is left out only when the table is full
IsTopTable(table, keys) ==
    /\ IsRankedCount(table, keys)
    /\ \A i, j \in DOMAIN table : i # j => table[i].key # table[j].key
    /\ \A i \in DOMAIN table : table[i].count >= 1
    /\ \A n \in DOMAIN keys :
          (\A i \in DOMAIN table : table[i].key # keys[n]) => Len(table) = TOP_ENTRIES

\* the sanitized value of a field in every fetched report, in report order
SanitizedValues(field) ==
    [n \in DOMAIN StatsReports |-> SanitizeInput(StatsReports[n][field])]

\* the raw value of a field in every fetched report
RawValues(field) == [n \in DOMAIN StatsReports |-> StatsReports[n][field]]

\* C17 as claimed: each table is a top table of the sanitized values of its
\* field over all fetched reports; and when three of five reports share a
\* client IP that no other IP matches in number, the first top-IP entry is
\* that IP with count 3.
C17_EveryTableCountsEveryValue ==
    StatsReady =>
        /\ IsRankedCount(statistics.topUserAgents, SanitizedValues("useragent"))
        /\ IsRankedCount(statistics.topIPs, SanitizedValues("clientip"))
        /\ IsRankedCount(statistics.topViolatedDirectives, SanitizedValues("violateddirective"))
        /\ IsRankedCount(statistics.topReferrers, SanitizedValues("referrer"))
        /\ IsRankedCount(statistics.topBlockedURIs, SanitizedValues("blockeduri"))
        /\ \A n \in DOMAIN StatsReports :
              LET ip == StatsReports[n].clientip IN
              (/\ Len(StatsReports) = 5
               /\ Occurrences(RawValues("clientip"), ip) = 3
               /\ \A o \in DOMAIN StatsReports :
                     StatsReports[o].clientip # ip =>
                         Occurrences(RawValues("clientip"), StatsReports[o].clientip) < 3)
                  => statistics.topIPs[1] = [key |-> SanitizeInput(ip), count |-> 3]

\* the sanitized referrers that are not empty
CountedReferrers == SelectSeq(SanitizedValues("referrer"), LAMBDA k : k # << >>)

\* the key derived from a user agent for the OS and the browser table
DerivedKeys(part) ==
    [n \in DOMAIN StatsReports |->
        ComponentKey(ParseUA(SanitizeInput(StatsReports[n].useragent))[part])]

\* C17 as amended: the tables of user agents, IPs, directives and blocked
\* URIs are top tables of the sanitized field values of all fetched reports;
\* the referrer table is one of the sanitized referrers that are not empty
\* (an empty one is left out whatever its number); the OS and browser tables
\* are top tables of the keys derived from the sanitized user agents.  When
\* three of five reports have one sanitized client IP and no other sanitized
\* IP occurs as often, the first top-IP entry is that IP with count 3.
C17_TopTablesOfCountedValues ==
    StatsReady =>
        /\ IsTopTable(statistics.topUserAgents, SanitizedValues("useragent"))
        /\ IsTopTable(statistics.topIPs, SanitizedValues("clientip"))
        /\ IsTopTable(statistics.topViolatedDirectives, SanitizedValues("violateddirective"))
        /\ IsTopTable(statistics.topBlockedURIs, SanitizedValues("blockeduri"))
        /\ IsTopTable(statistics.topReferrers, CountedReferrers)
        /\ \A i \in DOMAIN statistics.topReferrers : statistics.topReferrers[i].key # << >>
        /\ IsTopTable(statistics.topOS, DerivedKeys("os"))
        /\ IsTopTable(statistics.topBrowsers, DerivedKeys("browser"))
        /\ \A n \in DOMAIN StatsReports :
              LET ip == SanitizedValues("clientip")[n] IN
              (/\ Len(StatsReports) = 5
               /\ Occurrences(SanitizedValues("clientip"), ip) = 3
               /\ \A o \in DOMAIN StatsReports :
                     SanitizedValues("clientip")[o] # ip =>
                         Occurrences(SanitizedValues("clientip"), SanitizedValues("clientip")[o]) < 3)
                  => statistics.topIPs[1] = [key |-> ip, count |-> 3]

\* C17 witness: the statistics of a collection with more than TOP_ENTRIES
\* client IPs, one of them in three reports under two spellings, and with
\* empty referrers more frequent than any other.
C17_Witness ==
    /\ StatsReady
    /\ Len(statistics.topIPs) = TOP_ENTRIES
    /\ statistics.topIPs[1] = [key |-> <<"1">>, count |-> 3]
    /\ Occurrences(RawValues("clientip"), <<"1">>) = 2
    /\ Occurrences(SanitizedValues("referrer"), << >>) = 2
    /\ statistics.topReferrers[1].count = 1
    /\ Len(StatsReports) > TOP_ENTRIES + 2

----------------------------------------------------------------------------
(* Properties of the report table *)

\* a step in which the report table handled a user event
Handled == uiEvent'.flip # uiEvent.flip

\* the event dismissed the detail view: a click on Close or on the
\* backdrop, or Escape pressed while the view is open
Dismissal ==
    /\ Handled
    /\ \/ uiEvent'.name \in {"close", "backdrop"}
       \/ uiEvent'.name = "keydown" /\ uiEvent'.arg = <<"Escape">> /\ modalOpen

\* Escape pressed while the detail view is closed
IdleEscape ==
    Handled /\ uiEvent'.name = "keydown" /\ uiEvent'.arg = <<"Escape">> /\ ~modalOpen

\* C14: a dismissal of the detail view closes it and clears the selected
\* report, and leaves the fetched collection, the displayed rows, the search
\* query, the sort field and direction, the error and the cache as they
\* were; Escape pressed while the view is closed changes nothing.
C14_DismissalKeepsTheList ==
    [][/\ Dismissal =>
              /\ ~modalOpen'
              /\ selectedReport' = NoData
              /\ UNCHANGED <<reports, filteredReports, searchQuery, sortField,
                             sortDirection, error, cache, loading, rateLimitExceeded>>
       /\ IdleEscape =>
              UNCHANGED <<reports, filteredReports, searchQuery, sortField, sortDirection,
                          error, cache, loading, rateLimitExceeded, selectedReport,
                          modalOpen, tasks, requestCounts>>]_vars

\* C14 witness: after a search and a sort, a detail view was opened and then
\* dismissed with Escape; the rows, the query and the cache entry are there.
C14_Witness ==
    /\ uiEvent.name = "keydown"
    /\ uiEvent.arg = <<"Escape">>
    /\ ~modalOpen
    /\ selectedReport = NoData
    /\ lastDone.kind = "detail"
    /\ lastDone.outcome = "ok"
    /\ cache["table"][lastDone.url] # NoEntry
    /\ searchQuery = <<"<", "v">>
    /\ sortField = "clientip"
    /\ Len(filteredReports) = 2

\* the list view is in Ready: loaded, and no error banner in place of the table
Ready == ~loading["table"] /\ error["table"] = NoError

SearchedFields == {"violateddirective", "blockeduri", "clientip", "useragent"}

\* the fetched collection of the report table
Fetched == Rows(reports["table"])

\* C15: in Ready the displayed rows are, each once, exactly the fetched
\* reports with a searched field whose lowercased value contains the
\* sanitized lowercased query.
C15_DisplayedAreTheMatches ==
    Ready =>
        LET wanted == SanitizeInput(ToLowerCase(searchQuery)) IN
        /\ {filteredReports[i] : i \in DOMAIN filteredReports} =
              {Fetched[n] : n \in
                  {k \in DOMAIN Fetched :
                      \E field \in SearchedFields :
                          Includes(ToLowerCase(Fetched[k][field]), wanted)}}
        /\ \A i, j \in DOMAIN filteredReports :
              i # j => filteredReports[i] # filteredReports[j]

\* C15 witness: of three fetched reports the query "Ev" displays the one
\* whose blocked URI contains it.
C15_Witness ==
    /\ Ready
    /\ Len(Fetched) = 3
    /\ searchQuery = <<"E", "v">>
    /\ filteredReports = <<ReportA>>

\* C16: a click on a column header makes that column the sort field; the
\* direction flips if the column was the sort field already and is
\* ascending otherwise; the displayed rows are the same rows, each as often
\* as before.
C16_ClickSetsFieldAndDirection ==
    [][(Handled /\ uiEvent'.name = "sort") =>
          LET field == uiEvent'.arg[1] IN
          /\ sortField' = field
          /\ sortDirection' \in {"asc", "desc"}
          /\ sortField = field => sortDirection' # sortDirection
          /\ sortField # field => sortDirection' = "asc"
          /\ Len(filteredReports') = Len(filteredReports)
          /\ \A r \in Reports :
                Cardinality({i \in DOMAIN filteredReports' : filteredReports'[i] = r})
                    = Cardinality({i \in DOMAIN filteredReports : filteredReports[i] = r})
          /\ UNCHANGED <<reports, searchQuery>>]_vars

\* C16 witness: a second click on the client IP column has made the order
\* descending and rearranged three displayed rows.
C16_Witness ==
    /\ uiEvent.name = "sort"
    /\ sortField = "clientip"
    /\ sortDirection = "desc"
    /\ Len(filteredReports) = 3
    /\ filteredReports # Fetched
    /\ filteredReports[1] = ReportC

----------------------------------------------------------------------------
(* Properties of the list view's states *)

\* a step in which a fetchWithCache call settles
Settles ==
    \/ lastDone' # lastDone
    \/ BagCardinality(tasks') < BagCardinality(tasks)
    \/ TotalCalls' > TotalCalls /\ tasks' = tasks

C12_DetailFailureIsOnlyLogged ==
    [][(Settles /\ lastDone'.kind = "detail" /\ lastDone'.outcome = "error") =>
          /\ UNCHANGED <<error, reports, filteredReports, loading, selectedReport, modalOpen>>
          /\ Ready']_vars

\* C12 as amended: a detail fetch that fails stores its error as the error
\* of the list view, so that the error banner stands in place of the table;
\* the collection, the rows, loading, the selected report, the detail view
\* and the cache stay as they were.
C12_DetailFailureSetsTheError ==
    [][(Settles /\ lastDone'.kind = "detail" /\ lastDone'.outcome = "error") =>
          /\ error'["table"] = lastDone'.err
          /\ error'["table"] # NoError
          /\ ~Ready'
          /\ UNCHANGED <<reports, filteredReports, loading, selectedReport, modalOpen,
                         cache>>]_vars

\* C12 witness: in Ready a detail fetch failed on all attempts with status
\* 500, and the error is the error of the view.
C12_Witness ==
    /\ lastDone.kind = "detail"
    /\ lastDone.outcome = "error"
    /\ lastDone.err = HttpError(500)
    /\ error["table"] = HttpError(500)
    /\ reports["table"] # NoData
    /\ filteredReports # << >>
    /\ ~modalOpen

\* a step in which the limiter denies a fetch of the report table
TableDenied ==
    Checked /\ ~lastCheck'.result /\ lastCheck'.client = ClientId("table")

\* C13 as claimed: when the limiter denies a fetch issued from Ready, the
\* view stays Ready and the rate-limited flag is set.
C13_DenialLeavesReady ==
    [][(TableDenied /\ Ready) => (Ready' /\ rateLimitExceeded'["table"])]_vars

\* C13 as amended: a denial sets the rate-limited flag, which is never
\* reset, and fails the fetch with the rate-limit error, which becomes the
\* error of the view: a view that was Ready is Ready no more, the error
\* banner standing in place of the table; the collection and the rows stay
\* in memory.
C13_DenialSetsFlagAndError ==
    [][/\ TableDenied =>
              /\ rateLimitExceeded'["table"]
              /\ lastDone'.err = RateLimitError
              /\ lastDone'.view = "table"
              /\ error'["table"] = RateLimitError
              /\ ~Ready'
              /\ ~loading'["table"]
              /\ UNCHANGED <<reports, filteredReports, selectedReport, modalOpen>>
       /\ \A v \in Views : rateLimitExceeded[v] => rateLimitExceeded'[v]]_vars

\* C13 witness: in Ready a detail fetch was denied; the flag is set and the
\* rate-limit error is the error of the view.
C13_Witness ==
    /\ lastDone.kind = "detail"
    /\ lastDone.err = RateLimitError
    /\ rateLimitExceeded["table"]
    /\ error["table"] = RateLimitError
    /\ reports["table"] # NoData
    /\ filteredReports # << >>

----------------------------------------------------------------------------
(* Properties of the limiter as fetchWithRetry uses it *)

\* fetch() calls issued so far by component v
NetCalls(v) == SumOver([u \in Urls |-> netCount[v][u]], Urls)

\* a step in which component v issues a fetch()
Fetches(v) == \E u \in Urls : netCount'[v][u] # netCount[v][u]

\* C21: every attempt of fetchWithRetry, retries included, passes the
\* limiter and takes one slot of the caller's client id: a step issues a
\* fetch() exactly when it records a timestamp for the client, one for one,
\* so a call that has issued k fetch() calls has made k allowed checks and
\* the client has as many timestamps recorded as its component has issued
\* fetch() calls.
C21_EveryAttemptTakesASlot ==
    /\ [](\A v \in Views : Len(allowedLog[ClientId(v)]) = NetCalls(v))
    /\ [](\A t \in InFlight : t.pc = "fetch" => t.netCalls = t.retryCount + 1)
    /\ [][\A v \in Views :
             LET c == ClientId(v) IN
             /\ Fetches(v) <=> allowedLog'[c] # allowedLog[c]
             /\ Fetches(v) =>
                   /\ NetCalls(v)' = NetCalls(v) + 1
                   /\ Checked /\ lastCheck'.client = c /\ lastCheck'.result
                   /\ allowedLog'[c] = Append(allowedLog[c], now)
                   /\ requestCounts'[c] = Append(Pruned(c), now)]_vars

\* C21 witness: a call has failed after MAX_RETRIES + 1 fetch() calls, the
\* only ones of its component, and its client has MAX_RETRIES + 1 timestamps.
C21_Witness ==
    /\ lastDone.view = "table"
    /\ lastDone.outcome = "error"
    /\ lastDone.netCalls = MAX_RETRIES + 1
    /\ NetCalls("table") = MAX_RETRIES + 1
    /\ Len(allowedLog["client_table"]) = MAX_RETRIES + 1

----------------------------------------------------------------------------
(* Properties of the cache under overlapping calls *)

\* a step in which a fetchWithCache call returns the body of a response
Stores == Settles /\ lastDone'.via = "network" /\ lastDone'.outcome = "ok"

\* C22: calls of fetchWithCache for one URL that are in flight together
\* have each issued a fetch() of their own, and each that gets its body
\* stores it: the entry then holds the payload of the call that stored
\* last, whichever of them began first.
C22_LastStoreWins ==
    /\ [](\A t1, t2 \in InFlight :
             (t1 # t2 /\ t1.view = t2.view /\ t1.url = t2.url) =>
                 /\ t1.netCalls >= 1 /\ t2.netCalls >= 1
                 /\ t1.req # t2.req)
    /\ [](\A t \in InFlight : CopiesIn(t, tasks) = 1)
    /\ [][Stores =>
             LET v == lastDone'.view
                 u == lastDone'.url
             IN
             /\ cache'[v][u].data = lastDone'.data
             /\ cache'[v][u].timestamp = now
             /\ \A w \in Views, x \in Urls :
                   <<w, x>> # <<v, u>> => cache'[w][x] = cache[w][x]]_vars

\* C22 witness: two detail calls for one id overlapped and both got their
\* body; the one that began first stored last, and its payload is the entry.
C22_Witness ==
    /\ lastDone.kind = "detail"
    /\ lastDone.via = "network"
    /\ lastDone.outcome = "ok"
    /\ callCount["table"][lastDone.url] = 2
    /\ netCount["table"][lastDone.url] = 2
    /\ Pending("table", lastDone.url) = {}
    /\ error["table"] = NoError
    /\ lastDone.data.req = 1
    /\ cache["table"][lastDone.url].data = lastDone.data

\* a step in which component v calls fetchWithCache for url u
Called(v, u) == callCount'[v][u] # callCount[v][u]

\* the entry that the call made in this step found
SeenByTheCall ==
    IF tasks' # tasks
    THEN LET t == CHOOSE x \in BagToSet(tasks') : CopiesIn(x, tasks') > CopiesIn(x, tasks)
         IN t.seen
    ELSE lastDone'.seen

\* C23 as claimed: the components share one cache: at any time a URL has
\* the same entry for the report table and for the statistics component.
C23_OneCacheForAllViews ==
    \A u \in Urls : cache["table"][u] = cache["stats"][u]

\* C23 as amended: each component instance has a URL-keyed cache of its
\* own (only the limiter's map is shared): a store changes the entry of the
\* storing component alone, a call finds the entry of its own component,
\* and a call whose own component has no entry for the URL goes to the
\* limiter and the network, whatever another component has stored.
C23_CachePerComponent ==
    [][\A v \in Views :
          /\ cache'[v] # cache[v] =>
                /\ Stores
                /\ lastDone'.view = v
                /\ \A w \in Views \ {v} : cache'[w] = cache[w]
          /\ \A u \in Urls :
                Called(v, u) =>
                    /\ SeenByTheCall = cache[v][u].data
                    /\ cache[v][u] = NoEntry =>
                          /\ Checked
                          /\ lastCheck'.client = ClientId(v)
                          /\ tasks' = tasks => lastDone'.via # "cache"]_vars

\* C23 witness: the statistics component, with no entry of its own, is at
\* the first fetch() of a call that it made while the report table held a
\* fresh entry for the same URL.
C23_Witness ==
    /\ cache["table"][ListUrl] # NoEntry
    /\ now - cache["table"][ListUrl].timestamp < DURATION_MS
    /\ \E t \in InFlight :
          /\ t.view = "stats" /\ t.url = ListUrl
          /\ t.pc = "fetch" /\ t.retryCount = 0
          /\ t.since > cache["table"][ListUrl].timestamp
          /\ t.seen = NoData

\* C24: the cache of a component holds one entry for a URL; a store puts
\* its entry in the place of the one before, and under any interleaving of
\* overlapping calls the timestamp of the entry of a URL never goes down
\* from one store to the next.
C24_StoredAtNeverDecreases ==
    [][\A v \in Views, u \in Urls :
          cache'[v][u] # cache[v][u] =>
              /\ Stores
              /\ cache'[v][u] # NoEntry
              /\ cache'[v][u].data = lastDone'.data
              /\ cache'[v][u].timestamp >= cache[v][u].timestamp
              /\ cache'[v][u].timestamp >= 0]_vars

\* C24 witness: of two overlapping calls for one URL the one that began
\* later has stored first, at an earlier time than the other stores now.
C24_Witness ==
    /\ lastDone.via = "network"
    /\ lastDone.outcome = "ok"
    /\ lastDone.kind = "detail"
    /\ lastDone.data.req = 1
    /\ netCount["table"][lastDone.url] = 2
    /\ callCount["table"][lastDone.url] = 2
    /\ Pending("table", lastDone.url) = {}
    /\ error["table"] = NoError
    /\ cache["table"][lastDone.url].timestamp = now
    /\ cache["table"][lastDone.url].tries = 1
    /\ now >= 2

----------------------------------------------------------------------------
(* Properties of the statistics view's banners *)

\* C25: when the collection fetch of the statistics view has failed on a
\* denial of the limiter, the view shows the rate-limit warning banner,
\* not the error banner.
C25_DenialShowsTheWarning ==
    (~loading["stats"] /\ rateLimitExceeded["stats"]) => StatsShown = "rateLimit"

----------------------------------------------------------------------------
(* Properties of the keys derived from the user agent *)

\* the parser's result for the user agent of the n-th fetched report
Parsed(n) == ParseUA(SanitizeInput(StatsReports[n].useragent))

OrUnknown(part) == IF part = << >> THEN Unknown ELSE part

\* the key C26 claims for a component: Unknown for an absent name and for
\* an absent version alike
ClaimedKey(c) == Trim(OrUnknown(c.name) \o <<" ">> \o OrUnknown(c.version))

\* the key by cases: Unknown stands for an absent name only
KeyByCases(c) ==
    IF c.name = << >> /\ c.version = << >> THEN Unknown
    ELSE IF c.name = << >> THEN Unknown \o <<" ">> \o c.version
    ELSE IF c.version = << >> THEN c.name
    ELSE c.name \o <<" ">> \o c.version

KeysOf(table) == {table[i].key : i \in DOMAIN table}

\* C26 as claimed: the keys of the OS and the browser table are the claimed
\* keys of the fetched reports' user agents.
C26_UnknownForEveryAbsentPart ==
    StatsReady =>
        /\ KeysOf(statistics.topOS) = {ClaimedKey(Parsed(n).os) : n \in DOMAIN StatsReports}
        /\ KeysOf(statistics.topBrowsers) =
              {ClaimedKey(Parsed(n).browser) : n \in DOMAIN StatsReports}

\* C26 as amended: the key is "{name} {version}" trimmed, with Unknown in
\* the place of an absent name; an absent version is left out, so that the
\* key is the name alone, and the key of a component with neither is
\* Unknown.
C26_UnknownForAnAbsentName ==
    StatsReady =>
        /\ KeysOf(statistics.topOS) = {KeyByCases(Parsed(n).os) : n \in DOMAIN StatsReports}
        /\ KeysOf(statistics.topBrowsers) =
              {KeyByCases(Parsed(n).browser) : n \in DOMAIN StatsReports}
        /\ \A k \in KeysOf(statistics.topOS) \cup KeysOf(statistics.topBrowsers) :
              k # << >> /\ k[1] # " " /\ k[Len(k)] # " "

\* C26 witness: statistics of user agents with a name and no version, a
\* version and no name, both and neither.
C26_Witness ==
    /\ StatsReady
    /\ KeysOf(statistics.topOS) = {<<"L">>, Unknown \o <<" ", "7">>}
    /\ KeysOf(statistics.topBrowsers) = {<<"F", " ", "9">>, Unknown}

----------------------------------------------------------------------------
(* Properties of the limit on network calls *)

\* C27: every fetch() of a view instance is issued in the step of an
\* allowed check of its own client id, which logs it at the time of the
\* fetch(), so that the log of allowed checks is the log of the fetch()
\* calls; and in no window of WINDOW_MS that ends at or before now does the
\* log of a client hold more than the configured limit, whatever the
\* interleaving of list and detail calls and their retries.
C27_NetworkCallsWithinLimit ==
    /\ [][\A v \in Views :
             Fetches(v) =>
                 /\ Checked
                 /\ lastCheck'.client = ClientId(v)
                 /\ lastCheck'.result
                 /\ Len(allowedLog'[ClientId(v)]) = NetCalls(v)'
                 /\ allowedLog'[ClientId(v)][NetCalls(v)'] = now
                 /\ Cardinality(AllowedInWindow(ClientId(v), now)') <= maxRequests]_vars
    /\ [](\A v \in Views :
             /\ Len(allowedLog[ClientId(v)]) = NetCalls(v)
             /\ \A t \in 0..now :
                   Cardinality(AllowedInWindow(ClientId(v), t)) <= maxRequests)

\* C27 witness: the report table has issued fetch() calls for the
\* collection and for a report, more than MAX_REQUESTS in all, a call of
\* its own was denied, and the window that ends now is full.
C27_Witness ==
    /\ NetCalls("table") > MAX_REQUESTS
    /\ netCount["table"][ListUrl] >= 1
    /\ NetCalls("table") > netCount["table"][ListUrl]
    /\ rateLimitExceeded["table"]
    /\ Cardinality(AllowedInWindow("client_table", now)) = MAX_REQUESTS

----------------------------------------------------------------------------
(* Properties of the detail view *)

\* C28: whenever the detail view is open it shows the report fetched for
\* the id selected last, whatever the order in which overlapping detail
\* fetches complete; and modalOpen holds only while selectedReport is a
\* fetched report.
C28_ShowsTheLastSelection ==
    /\ modalOpen => selectedReport # NoData
    /\ ModalShown => selectedReport.url = DetailUrl(selectedId)

----------------------------------------------------------------------------
(* Properties of the order of the rows *)

\* are the displayed rows in the order of the active sort field and
\* direction: never a larger value before a smaller one when ascending,
\* never a smaller before a larger when descending
Ordered ==
    \A i, j \in DOMAIN filteredReports :
        i < j =>
            IF sortDirection = "asc"
            THEN ~Greater(filteredReports[i][sortField], filteredReports[j][sortField],
                          sortField)
            ELSE ~Greater(filteredReports[j][sortField], filteredReports[i][sortField],
                          sortField)

\* C29: in Ready the rows are in the order of the active sort field and
\* direction after a click on a column header, and still so after a change
\* of the search query that follows a click.
C29_RowsOrderedAfterAClick ==
    [][(/\ Handled
        /\ Ready'
        /\ \/ uiEvent'.name = "sort"
           \/ uiEvent.name = "sort" /\ uiEvent'.name = "search") => Ordered']_vars

----------------------------------------------------------------------------
(* Properties of the cache under failing calls *)

\* a step in which a fetchWithCache call fails
Fails == Settles /\ lastDone'.outcome = "error"

\* C30: a fetchWithCache call that fails, on a denial of the limiter, on
\* the failure of its last attempt or on a body that cannot be parsed,
\* leaves the cache as it was: no entry is added, and the entry of the URL,
\* if there is one, keeps its payload and its timestamp.  A step that
\* changes the cache is the return of a successful call.
C30_FailureLeavesTheCache ==
    [][/\ Fails =>
             /\ lastDone'.err \in {RateLimitError, ParseError} \cup AttemptErrors
             /\ cache' = cache
       /\ cache' # cache => (Stores /\ ~Fails)]_vars

\* C30 witness: a call that found a stale entry has failed on a body that
\* could not be parsed, and the entry is there as the call found it.
C30_Witness ==
    /\ lastDone.outcome = "error"
    /\ lastDone.err = ParseError
    /\ lastDone.age >= DURATION_MS
    /\ lastDone.seen # NoData
    /\ cache[lastDone.view][lastDone.url] # NoEntry
    /\ cache[lastDone.view][lastDone.url].data = lastDone.seen
    /\ now - cache[lastDone.view][lastDone.url].timestamp >= DURATION_MS

====
